---- MODULE Spec2Model ----
(***************************************************************************)
(* Client-side session / chat interaction core of the BookLeaf frontend:   *)
(* the two token stores (lib/auth-client and the useToken hook), the two   *)
(* chat controllers (ChatUI and ChatPage), the two login forms (LoginForm  *)
(* and AuthForm), the Navbar logout and the router.                        *)
(*                                                                         *)
(* One browser context, one page mounted at a time.  Network calls are     *)
(* suspended continuations: a request issued by a component stays in       *)
(* flight when the component unmounts; its continuation then still runs    *)
(* its non-React effects (localStorage, router.push) while its state       *)
(* setters are no-ops.                                                     *)
(***************************************************************************)
EXTENDS Naturals, Sequences, FiniteSets

(***************************************************************************)
(* Bounds of the model.                                                    *)
(***************************************************************************)
MaxLog == 3        \* longest chat log explored
MaxInFlight == 2   \* most chat requests of the mounted controller in flight
MaxOrphans == 1    \* most requests in flight whose component has unmounted
MaxSteps == 4      \* most reasoning steps of a response in the tool-list runs

(***************************************************************************)
(* Values.                                                                 *)
(***************************************************************************)
NoToken == "null"
Tokens == {"tok1"}
MaybeToken == Tokens \cup {NoToken}

\* the two storage keys
AUTH_CLIENT_KEY == "blp_token"
USE_TOKEN_KEY == "access_token"
Keys == {AUTH_CLIENT_KEY, USE_TOKEN_KEY}

\* localStorage either works or throws on every access (storage disabled for
\* the site); the mode is fixed for the life of the browser context
StorageModes == {"ok", "disabled"}

Controllers == {"ChatUI", "ChatPage"}
Forms == {"LoginForm", "AuthForm"}
Views == {"AuthPage", "Home", "LoginPage", "ChatUI", "ChatPage"}
\* pages that render <Navbar />
NavbarViews == {"Home", "LoginPage", "ChatPage"}
\* the pages a route may resolve to
RouteTargets(route) ==
    IF route = "/chat" THEN {"ChatUI", "ChatPage"} ELSE {"AuthPage", "Home"}

\* texts typed into a chat textarea, as sequences of characters: empty,
\* blank and plain
Texts == {<<>>, <<" ">>, <<"q">>}

\* String.prototype.trim
RECURSIVE TrimLeft(_)
TrimLeft(s) ==
    IF s = <<>> THEN s
    ELSE IF Head(s) = " " THEN TrimLeft(Tail(s)) ELSE s
RECURSIVE TrimRight(_)
TrimRight(s) ==
    IF s = <<>> THEN s
    ELSE IF s[Len(s)] = " " THEN TrimRight(SubSeq(s, 1, Len(s) - 1)) ELSE s
Trim(s) == TrimRight(TrimLeft(s))

\* initial value of ChatPage's input state
DEFAULT_INPUT == <<"q">>

\* message contents produced by the backend and the placeholders
ANSWER == <<"answer">>
NO_ANSWER_RETURNED == <<"(no answer returned)">>
NO_ANSWER_PROVIDED == <<"(No answer provided.)">>

\* a reasoning step without a tool name
NoTool == "undefined"
\* the reasoning_steps of an answer, as the sequence of their tool fields
STEPS == <<"a", NoTool, "a", "b">>

\* .filter(Boolean)
RECURSIVE FilterBoolean(_)
FilterBoolean(s) ==
    IF s = <<>> THEN <<>>
    ELSE IF Head(s) = NoTool THEN FilterBoolean(Tail(s))
    ELSE <<Head(s)>> \o FilterBoolean(Tail(s))

InSeq(x, s) == \E i \in 1..Len(s) : s[i] = x

\* Array.from(new Set(s)): first occurrence of each element, in order
RECURSIVE ArrayFromSet(_)
ArrayFromSet(s) ==
    IF s = <<>> THEN <<>>
    ELSE LET init == ArrayFromSet(SubSeq(s, 1, Len(s) - 1))
             last == s[Len(s)]
         IN IF InSeq(last, init) THEN init ELSE Append(init, last)

UserMsg(text) == [role |-> "user", content |-> text, tools |-> <<>>]
AssistantMsg(text, tools) == [role |-> "assistant", content |-> text, tools |-> tools]

\* outcomes of a POST /chat: status 0 is a transport failure (fetch rejects);
\* json: the body parses; answer: the body has an answer field, whose value is
\* text; steps: the tool fields of its reasoning_steps
ChatOutcomes ==
    {[status |-> 0, json |-> FALSE, answer |-> FALSE, text |-> <<>>, detail |-> FALSE,
      steps |-> <<>>]}
    \cup {[status |-> 401, json |-> TRUE, answer |-> FALSE, text |-> <<>>, detail |-> TRUE,
           steps |-> <<>>]}
    \cup {[status |-> 500, json |-> TRUE, answer |-> FALSE, text |-> <<>>, detail |-> TRUE,
           steps |-> <<>>]}
    \cup {[status |-> 200, json |-> FALSE, answer |-> FALSE, text |-> <<>>, detail |-> FALSE,
           steps |-> <<>>]}
    \cup {[status |-> 200, json |-> TRUE, answer |-> TRUE, text |-> ANSWER, detail |-> FALSE,
           steps |-> STEPS]}
    \cup {[status |-> 200, json |-> TRUE, answer |-> TRUE, text |-> <<>>, detail |-> FALSE,
           steps |-> <<>>]}
    \cup {[status |-> 200, json |-> TRUE, answer |-> FALSE, text |-> <<>>, detail |-> FALSE,
           steps |-> <<>>]}

\* data?.answer || placeholder: the placeholder stands in for a missing and for
\* an empty answer
OrPlaceholder_none(resp, placeholder) == resp.text

OrPlaceholder(resp, placeholder) ==
    IF resp.json /\ resp.answer /\ resp.text # <<>> THEN resp.text ELSE placeholder

\* outcomes of a POST /login or /register
LoginOutcomes ==
    {[status |-> 0, json |-> FALSE, access_token |-> NoToken]}
    \cup {[status |-> 401, json |-> TRUE, access_token |-> NoToken]}
    \cup {[status |-> 200, json |-> FALSE, access_token |-> NoToken]}
    \cup {[status |-> 200, json |-> TRUE, access_token |-> t] : t \in MaybeToken}

Ok(resp) == resp.status = 200

VARIABLES
    storageMode,   \* how localStorage behaves in this browser context
    storage,       \* localStorage: key -> token or NoToken
    revoked,       \* history: tokens destroyed by a logout and not issued again since
    view,          \* the page mounted
    pushed,        \* route of a router.push not yet carried out, or "none"
    loginTimer,    \* LoginForm's setTimeout(() => router.push("/chat"), 500) is pending
    navToken,      \* Navbar's useToken state
    token,         \* per chat controller: its token state
    messages,      \* per chat controller: its message log
    input,         \* per chat controller: its textarea state
    sending,       \* per chat controller: sending (ChatUI) / loading (ChatPage)
    error,         \* per chat controller: its error state
    requests,      \* chat requests in flight
    mode,          \* AuthForm's mode state
    formLoading,   \* per login form: its loading state
    formError,     \* per login form: its error state
    loginReqs,     \* login/register requests in flight
    lastCall       \* history: the sendMessage call just made and the state it saw

storeVars == <<storageMode, storage, revoked>>
navVars == <<view, pushed, loginTimer, navToken>>
chatVars == <<token, messages, input, sending, error, requests>>
formVars == <<mode, formLoading, formError, loginReqs>>
progVars == <<storeVars, navVars, chatVars, formVars>>
vars == <<progVars, lastCall>>

\* no sendMessage call was the last step
NoCall == [ctl |-> "none", input |-> <<>>, messages |-> <<>>, sending |-> FALSE, live |-> 0]

(***************************************************************************)
(* Token Store 1: lib/auth-client (key "blp_token").                       *)
(***************************************************************************)
getToken ==
    IF storageMode = "disabled" THEN NoToken ELSE storage[AUTH_CLIENT_KEY]

setToken_unguarded(st, t) == [st EXCEPT ![AUTH_CLIENT_KEY] = t]

setToken(st, t) ==
    IF storageMode # "disabled" THEN [st EXCEPT ![AUTH_CLIENT_KEY] = t] ELSE st

clearToken_noop(st) == st

clearToken(st) ==
    IF storageMode = "disabled" THEN st ELSE [st EXCEPT ![AUTH_CLIENT_KEY] = NoToken]

(***************************************************************************)
(* Token Store 2: the useToken hook (key "access_token").  Every component *)
(* that calls useToken() gets its own token state; only localStorage is    *)
(* shared.                                                                 *)
(***************************************************************************)
\* the mount effect: the value the hook's state takes after it
useToken_useEffect ==
    IF storageMode = "disabled" THEN NoToken ELSE storage[USE_TOKEN_KEY]

\* the localStorage part of the hook's setToken
useToken_setToken_stateOnly(st, value) == st

useToken_setToken(st, value) ==
    IF storageMode # "disabled" THEN [st EXCEPT ![USE_TOKEN_KEY] = value] ELSE st

\* the localStorage part of the hook's clearToken
useToken_clearToken(st) ==
    IF storageMode = "disabled" THEN st ELSE [st EXCEPT ![USE_TOKEN_KEY] = NoToken]

(***************************************************************************)
(* Initial state: a fresh browser context on the entry page.               *)
(***************************************************************************)
NoMessages == [c \in Controllers |-> <<>>]
InitialInput == [c \in Controllers |-> IF c = "ChatPage" THEN DEFAULT_INPUT ELSE <<>>]

Init ==
    /\ storageMode \in StorageModes
    /\ storage = [k \in Keys |-> NoToken]
    /\ revoked = {}
    /\ view = "AuthPage"
    /\ pushed = "none"
    /\ loginTimer = FALSE
    /\ navToken = NoToken
    /\ token = [c \in Controllers |-> NoToken]
    /\ messages = NoMessages
    /\ input = InitialInput
    /\ sending = [c \in Controllers |-> FALSE]
    /\ error = [c \in Controllers |-> "null"]
    /\ requests = {}
    /\ mode = "login"
    /\ formLoading = [f \in Forms |-> FALSE]
    /\ formError = [f \in Forms |-> "null"]
    /\ loginReqs = {}
    /\ lastCall = NoCall

(***************************************************************************)
(* Mounting and navigation.                                                *)
(***************************************************************************)
\* login requests whose issuing form has unmounted: the continuation no longer
\* reads the mode, and orphans of one form are not told apart
Orphan(reqs) == {[form |-> r.form, mode |-> "login", live |-> FALSE] : r \in reqs}

\* chat requests whose issuing controller has unmounted.  ChatUI's continuation
\* can still call clearToken() and router.push("/") and reads nothing the
\* request carried, so only its controller is kept; ChatPage's continuation
\* only calls state setters, which do nothing after the unmount, so its
\* requests are dropped
OrphanChat(reqs) ==
    {[ctl |-> r.ctl, live |-> FALSE, bearer |-> NoToken, query |-> <<>>, idx |-> 0,
      stale |-> FALSE] : r \in {q \in reqs : q.ctl = "ChatUI"}}

\* ChatUI's session guard, run on mount: the token state it sets and whether it
\* calls router.push("/")
ChatUI_useEffect ==
    LET t == getToken
    IN [token |-> t, push |-> (t = NoToken)]

\* the page v replaces the mounted one; `hard` is a full page load, which
\* also drops every pending continuation and timer
Enter(v, hard) ==
    /\ lastCall' = NoCall
    /\ hard \/ Cardinality(OrphanChat(requests)) + Cardinality(Orphan(loginReqs)) <= MaxOrphans
    /\ view' = v
    /\ requests' = IF hard THEN {} ELSE OrphanChat(requests)
    /\ loginReqs' = IF hard THEN {} ELSE Orphan(loginReqs)
    /\ loginTimer' = IF hard THEN FALSE ELSE loginTimer
    /\ messages' = NoMessages
    /\ input' = InitialInput
    /\ sending' = [c \in Controllers |-> FALSE]
    /\ error' = [c \in Controllers |-> "null"]
    /\ token' = [c \in Controllers |->
                   IF c # v THEN NoToken
                   ELSE IF c = "ChatUI" THEN ChatUI_useEffect.token
                   ELSE useToken_useEffect]
    /\ navToken' = IF v \in NavbarViews THEN useToken_useEffect ELSE NoToken
    /\ pushed' = IF v = "ChatUI" /\ ChatUI_useEffect.push THEN "/" ELSE "none"
    /\ mode' = "login"
    /\ formLoading' = [f \in Forms |-> FALSE]
    /\ formError' = [f \in Forms |-> "null"]
    /\ UNCHANGED storeVars

\* the user follows a link or goes back/forward (client-side navigation)
Navigate(v) ==
    /\ v # view
    /\ Enter(v, FALSE)

\* the user loads a page by URL or reloads
Reload(v) == Enter(v, TRUE)

\* router.push(route) can be called: navigations are carried out in order, so
\* a push to another route waits for the pending one
CanPush(route) == pushed \in {"none", route}

\* a pending router.push is carried out
RouterNavigate ==
    /\ lastCall' = NoCall
    /\ pushed # "none"
    /\ IF view \in RouteTargets(pushed)
       THEN /\ pushed' = "none"
            /\ UNCHANGED <<storeVars, view, loginTimer, navToken, chatVars, formVars>>
       ELSE \E v \in RouteTargets(pushed) : Enter(v, FALSE)

\* LoginForm's 500 ms timer fires
TimerFire ==
    /\ lastCall' = NoCall
    /\ loginTimer
    /\ CanPush("/chat")
    /\ loginTimer' = FALSE
    /\ pushed' = "/chat"
    /\ UNCHANGED <<storeVars, view, navToken, chatVars, formVars>>

(***************************************************************************)
(* Chat controllers.                                                       *)
(***************************************************************************)
LiveRequests(c) == {r \in requests : r.ctl = c /\ r.live}

\* a chat request put in flight by controller c; idx is the position of its
\* user message in c's log, stale records that its bearer was already logged out
NewRequest(c, bearer, query, idx) ==
    [ctl |-> c, live |-> TRUE, bearer |-> bearer, query |-> query, idx |-> idx,
     stale |-> (bearer \in revoked)]

\* the sendMessage call being made by controller c
ThisCall(c) ==
    [ctl |-> c, input |-> input[c], messages |-> messages[c], sending |-> sending[c],
     live |-> Cardinality(LiveRequests(c))]

\* the textarea accepts typing
TextareaEnabled(c) ==
    IF c = "ChatUI" THEN token[c] # NoToken /\ ~sending[c] ELSE ~sending[c]

\* onChange of the textarea
SetInput(c, text) ==
    /\ lastCall' = NoCall
    /\ view = c
    /\ TextareaEnabled(c)
    /\ input' = [input EXCEPT ![c] = text]
    /\ UNCHANGED <<storeVars, navVars, formVars, token, messages, sending, error, requests>>

\* ChatUI.sendMessage up to its first await: what it does to the log
ChatUI_userMsg(inp) == UserMsg(Trim(inp))

\* the requests one sendMessage call puts in flight: fetch is called once
ChatUI_fetch_twice(q) == {q, [q EXCEPT !.idx = 0]}

ChatUI_fetch(q) == {q}

ChatUI_accepts_tokenOnly == token["ChatUI"] # NoToken

ChatUI_accepts == Trim(input["ChatUI"]) # <<>> /\ token["ChatUI"] # NoToken

ChatUI_sendMessage ==
    /\ view = "ChatUI"
    /\ lastCall' = ThisCall("ChatUI")
    /\ IF ~ChatUI_accepts
       THEN UNCHANGED progVars
       ELSE /\ Len(messages["ChatUI"]) < MaxLog
            /\ Cardinality(LiveRequests("ChatUI")) < MaxInFlight
            /\ error' = [error EXCEPT !["ChatUI"] = "null"]
            /\ messages' = [messages EXCEPT
                              !["ChatUI"] = Append(@, ChatUI_userMsg(input["ChatUI"]))]
            /\ input' = [input EXCEPT !["ChatUI"] = <<>>]
            /\ sending' = [sending EXCEPT !["ChatUI"] = TRUE]
            /\ requests' = requests \cup
                  ChatUI_fetch(NewRequest("ChatUI", token["ChatUI"], Trim(input["ChatUI"]),
                                          Len(messages["ChatUI"]) + 1))
            /\ UNCHANGED <<storeVars, navVars, formVars, token>>

\* ChatPage.sendMessage up to its first await
ChatPage_userMsg(inp) == UserMsg(inp)

ChatPage_accepts_requiresToken ==
    Trim(input["ChatPage"]) # <<>> /\ token["ChatPage"] # NoToken

ChatPage_accepts == Trim(input["ChatPage"]) # <<>>

ChatPage_sendMessage ==
    /\ view = "ChatPage"
    /\ lastCall' = ThisCall("ChatPage")
    /\ IF ~ChatPage_accepts
       THEN UNCHANGED progVars
       ELSE /\ Len(messages["ChatPage"]) < MaxLog
            /\ Cardinality(LiveRequests("ChatPage")) < MaxInFlight
            /\ error' = [error EXCEPT !["ChatPage"] = "null"]
            /\ sending' = [sending EXCEPT !["ChatPage"] = TRUE]
            /\ messages' = [messages EXCEPT
                              !["ChatPage"] = Append(@, ChatPage_userMsg(input["ChatPage"]))]
            /\ requests' = requests \cup
                  {NewRequest("ChatPage", token["ChatPage"], input["ChatPage"],
                              Len(messages["ChatPage"]) + 1)}
            /\ UNCHANGED <<storeVars, navVars, formVars, token, input>>

\* setMessages((m) => [...m, assistantMsg])
ChatUI_setMessages_replace(prev, m) == <<m>>

ChatUI_setMessages(prev, m) == Append(prev, m)

\* the sending flag after the finally block
ChatUI_finally_skipped == TRUE

ChatUI_finally == FALSE

\* ChatUI.sendMessage after the fetch settles: the new log, error and sending
\* flag, and whether clearToken() and router.push("/") are called
ChatUI_complete(msgs, err, resp) ==
    IF resp.status = 0
    THEN [messages |-> msgs, error |-> "e.message", sending |-> ChatUI_finally,
          clear |-> FALSE, push |-> FALSE]
    ELSE IF resp.status = 401
    THEN [messages |-> msgs, error |-> "Your session has expired. Please log in again.",
          sending |-> ChatUI_finally, clear |-> TRUE, push |-> TRUE]
    ELSE IF ~Ok(resp)
    THEN [messages |-> msgs,
          error |-> IF ~resp.json THEN "Invalid JSON from server"
                    ELSE IF resp.detail THEN "data.detail"
                    ELSE "Request failed with status",
          sending |-> ChatUI_finally, clear |-> FALSE, push |-> FALSE]
    ELSE [messages |->
              ChatUI_setMessages(
                  msgs,
                  AssistantMsg(OrPlaceholder(resp, NO_ANSWER_RETURNED),
                               ArrayFromSet(FilterBoolean(
                                   IF resp.json THEN resp.steps ELSE <<>>)))),
          error |-> err, sending |-> ChatUI_finally, clear |-> FALSE, push |-> FALSE]

ChatUI_response(r, resp) ==
    /\ lastCall' = NoCall
    /\ r \in requests
    /\ r.ctl = "ChatUI"
    /\ LET out == ChatUI_complete(messages["ChatUI"], error["ChatUI"], resp)
       IN /\ Len(out.messages) <= MaxLog
          /\ out.push => CanPush("/")
          /\ requests' = requests \ {r}
          /\ IF r.live
             THEN /\ messages' = [messages EXCEPT !["ChatUI"] = out.messages]
                  /\ error' = [error EXCEPT !["ChatUI"] = out.error]
                  /\ sending' = [sending EXCEPT !["ChatUI"] = out.sending]
             ELSE UNCHANGED <<messages, error, sending>>
          /\ storage' = IF out.clear THEN clearToken(storage) ELSE storage
          /\ pushed' = IF out.push THEN "/" ELSE pushed
    /\ UNCHANGED <<storageMode, revoked, view, loginTimer, navToken, formVars, token, input>>

\* the log after ChatPage.sendMessage's catch block
ChatPage_catch_rollback(msgs) == SubSeq(msgs, 1, Len(msgs) - 1)

ChatPage_catch(msgs) == msgs

\* chatRequest after the fetch settles, then ChatPage.sendMessage: the new log,
\* error, input and loading flag
ChatPage_complete(msgs, err, inp, resp) ==
    IF resp.status = 0
    THEN [messages |-> ChatPage_catch(msgs), error |-> "err.message", input |-> inp,
          sending |-> FALSE]
    ELSE IF ~Ok(resp)
    THEN [messages |-> ChatPage_catch(msgs),
          error |-> IF resp.status = 401 THEN "Chat failed (401)" ELSE "Chat failed (status)",
          input |-> inp, sending |-> FALSE]
    ELSE IF ~resp.json
    THEN [messages |-> ChatPage_catch(msgs), error |-> "err.message", input |-> inp,
          sending |-> FALSE]
    ELSE [messages |->
              Append(msgs,
                     AssistantMsg(OrPlaceholder(resp, NO_ANSWER_PROVIDED),
                                  FilterBoolean(resp.steps))),
          error |-> err, input |-> <<>>, sending |-> FALSE]

ChatPage_response(r, resp) ==
    /\ lastCall' = NoCall
    /\ r \in requests
    /\ r.ctl = "ChatPage"
    /\ LET out == ChatPage_complete(messages["ChatPage"], error["ChatPage"],
                                    input["ChatPage"], resp)
       IN /\ Len(out.messages) <= MaxLog
          /\ requests' = requests \ {r}
          /\ IF r.live
             THEN /\ messages' = [messages EXCEPT !["ChatPage"] = out.messages]
                  /\ error' = [error EXCEPT !["ChatPage"] = out.error]
                  /\ input' = [input EXCEPT !["ChatPage"] = out.input]
                  /\ sending' = [sending EXCEPT !["ChatPage"] = out.sending]
             ELSE UNCHANGED <<messages, error, input, sending>>
    /\ UNCHANGED <<storeVars, navVars, formVars, token>>

\* ChatUI's Logout button
ChatUI_onLogout ==
    /\ lastCall' = NoCall
    /\ view = "ChatUI"
    /\ CanPush("/")
    /\ storage' = clearToken(storage)
    /\ pushed' = "/"
    /\ revoked' = revoked \cup ({token["ChatUI"], storage[AUTH_CLIENT_KEY]} \cap Tokens)
    /\ UNCHANGED <<storageMode, view, loginTimer, navToken, chatVars, formVars>>

\* the Navbar's Logout button, rendered while the Navbar's token state is set
Navbar_clearToken ==
    /\ lastCall' = NoCall
    /\ view \in NavbarViews
    /\ navToken # NoToken
    /\ navToken' = NoToken
    /\ storage' = useToken_clearToken(storage)
    /\ revoked' = revoked \cup ({navToken, storage[USE_TOKEN_KEY]} \cap Tokens)
    /\ UNCHANGED <<storageMode, view, pushed, loginTimer, chatVars, formVars>>

(***************************************************************************)
(* Login forms.                                                            *)
(***************************************************************************)
\* LoginForm.onSubmit up to its await (email and password are pre-filled and
\* `required`); the form's submit button is disabled while loading
LoginForm_onSubmit ==
    /\ lastCall' = NoCall
    /\ view = "LoginPage"
    /\ ~formLoading["LoginForm"]
    /\ formLoading' = [formLoading EXCEPT !["LoginForm"] = TRUE]
    /\ formError' = [formError EXCEPT !["LoginForm"] = "null"]
    /\ loginReqs' = loginReqs \cup {[form |-> "LoginForm", mode |-> "login", live |-> TRUE]}
    /\ UNCHANGED <<storeVars, navVars, chatVars, mode>>

\* loginRequest after the fetch settles: the token it returns, or NoToken when
\* it throws
loginRequest(resp) ==
    IF Ok(resp) /\ resp.json THEN resp.access_token ELSE NoToken

\* the error LoginForm.onSubmit's catch block records when loginRequest throws
LoginForm_catch_swallowed(resp) == "null"

LoginForm_catch(resp) ==
    IF resp.status = 0 THEN "err.message"
    ELSE IF ~Ok(resp) THEN "Login failed (status)"
    ELSE IF ~resp.json THEN "err.message"
    ELSE "Login response missing access_token."

\* LoginForm.onSubmit after loginRequest settles
LoginForm_response(r, resp) ==
    /\ lastCall' = NoCall
    /\ r \in loginReqs
    /\ r.form = "LoginForm"
    /\ loginReqs' = loginReqs \ {r}
    /\ LET t == loginRequest(resp)
       IN IF t # NoToken
          THEN /\ storage' = useToken_setToken(storage, t)
               /\ revoked' = revoked \ {t}
               /\ loginTimer' = TRUE
               /\ formError' = formError
          ELSE /\ formError' = IF r.live
                               THEN [formError EXCEPT !["LoginForm"] = LoginForm_catch(resp)]
                               ELSE formError
               /\ UNCHANGED <<storage, revoked, loginTimer>>
    /\ formLoading' = IF r.live THEN [formLoading EXCEPT !["LoginForm"] = FALSE]
                      ELSE formLoading
    /\ UNCHANGED <<storageMode, view, pushed, navToken, chatVars, mode>>

\* the Login / Register tabs of AuthForm
AuthForm_setMode(m) ==
    /\ lastCall' = NoCall
    /\ view = "AuthPage"
    /\ mode' = m
    /\ UNCHANGED <<storeVars, navVars, chatVars, formLoading, formError, loginReqs>>

\* AuthForm.onSubmit up to its await; filled: both email and password are
\* given; the form's submit button is disabled while loading
AuthForm_onSubmit(filled) ==
    /\ lastCall' = NoCall
    /\ view = "AuthPage"
    /\ ~formLoading["AuthForm"]
    /\ IF ~filled
       THEN /\ formError' = [formError EXCEPT
                               !["AuthForm"] = "Please provide both email and password."]
            /\ UNCHANGED <<formLoading, loginReqs>>
       ELSE /\ formError' = [formError EXCEPT !["AuthForm"] = "null"]
            /\ formLoading' = [formLoading EXCEPT !["AuthForm"] = TRUE]
            /\ loginReqs' = loginReqs \cup
                  {[form |-> "AuthForm", mode |-> mode, live |-> TRUE]}
    /\ UNCHANGED <<storeVars, navVars, chatVars, mode>>

\* authRequest after the fetch settles: the result object it returns
authRequest(resp) ==
    IF resp.status = 0 THEN [error |-> "Network error", access_token |-> NoToken]
    ELSE IF ~Ok(resp) THEN [error |-> "Request failed", access_token |-> NoToken]
    ELSE [error |-> "null", access_token |-> IF resp.json THEN resp.access_token ELSE NoToken]

\* AuthForm.onSubmit after authRequest settles
AuthForm_response(r, resp) ==
    /\ lastCall' = NoCall
    /\ r \in loginReqs
    /\ r.form = "AuthForm"
    /\ loginReqs' = loginReqs \ {r}
    /\ formLoading' = IF r.live THEN [formLoading EXCEPT !["AuthForm"] = FALSE]
                      ELSE formLoading
    /\ LET result == authRequest(resp)
       IN IF result.error # "null"
          THEN /\ formError' = IF r.live
                               THEN [formError EXCEPT !["AuthForm"] = result.error]
                               ELSE formError
               /\ UNCHANGED <<storage, revoked, pushed>>
          ELSE IF result.access_token # NoToken
          THEN /\ CanPush("/chat")
               /\ storage' = setToken(storage, result.access_token)
               /\ revoked' = revoked \ {result.access_token}
               /\ pushed' = "/chat"
               /\ formError' = formError
          ELSE /\ formError' = IF r.live
                               THEN [formError EXCEPT
                                       !["AuthForm"] = "No access token returned from server."]
                               ELSE formError
               /\ UNCHANGED <<storage, revoked, pushed>>
    /\ UNCHANGED <<storageMode, view, loginTimer, navToken, chatVars, mode>>

(***************************************************************************)
(* Specification.                                                          *)
(***************************************************************************)
Next ==
    \/ \E v \in Views : Navigate(v)
    \/ \E v \in Views : Reload(v)
    \/ RouterNavigate
    \/ TimerFire
    \/ \E c \in Controllers, text \in Texts : SetInput(c, text)
    \/ ChatUI_sendMessage
    \/ ChatPage_sendMessage
    \/ \E r \in requests, resp \in ChatOutcomes : ChatUI_response(r, resp)
    \/ \E r \in requests, resp \in ChatOutcomes : ChatPage_response(r, resp)
    \/ ChatUI_onLogout
    \/ Navbar_clearToken
    \/ LoginForm_onSubmit
    \/ \E r \in loginReqs, resp \in LoginOutcomes : LoginForm_response(r, resp)
    \/ \E m \in {"login", "register"} : AuthForm_setMode(m)
    \/ \E filled \in BOOLEAN : AuthForm_onSubmit(filled)
    \/ \E r \in loginReqs, resp \in LoginOutcomes : AuthForm_response(r, resp)

Spec == Init /\ [][Next]_vars

(***************************************************************************)
(* Tool lists.  A second specification: a controller has one send in       *)
(* flight, and the backend answers it with any list of reasoning steps of  *)
(* at most MaxSteps steps.                                                 *)
(***************************************************************************)
\* the tool field of a reasoning step
ToolFields == {"a", "b", "c", NoTool}

StepLists == UNION {[1..n -> ToolFields] : n \in 0..MaxSteps}

ToolOutcomes ==
    {[status |-> 200, json |-> TRUE, answer |-> TRUE, text |-> ANSWER, detail |-> FALSE,
      steps |-> l] : l \in StepLists}

\* the tool names rendered under an assistant message
ChatUI_tools(m) == m.tools
ChatPage_tools_asStored(m) == m.tools
ChatPage_tools(m) == ArrayFromSet(m.tools)
Displayed(c, m) == IF c = "ChatUI" THEN ChatUI_tools(m) ELSE ChatPage_tools(m)

\* the controller v, logged in where it needs to be, has just sent "q"
InitTools ==
    /\ storageMode = "ok"
    /\ view \in Controllers
    /\ storage = [k \in Keys |->
                    IF view = "ChatUI" /\ k = AUTH_CLIENT_KEY THEN "tok1" ELSE NoToken]
    /\ revoked = {}
    /\ pushed = "none"
    /\ loginTimer = FALSE
    /\ navToken = NoToken
    /\ token = [c \in Controllers |-> IF c = view THEN storage[AUTH_CLIENT_KEY] ELSE NoToken]
    /\ messages = [c \in Controllers |-> IF c = view THEN <<UserMsg(<<"q">>)>> ELSE <<>>]
    /\ input = InitialInput
    /\ sending = [c \in Controllers |-> c = view]
    /\ error = [c \in Controllers |-> "null"]
    /\ requests = {[ctl |-> view, live |-> TRUE, bearer |-> token[view], query |-> <<"q">>,
                     idx |-> 1, stale |-> FALSE]}
    /\ mode = "login"
    /\ formLoading = [f \in Forms |-> FALSE]
    /\ formError = [f \in Forms |-> "null"]
    /\ loginReqs = {}
    /\ lastCall = [ctl |-> view, input |-> <<"q">>, messages |-> <<>>, sending |-> FALSE,
                    live |-> 0]

NextTools ==
    \/ \E r \in requests, resp \in ToolOutcomes : ChatUI_response(r, resp)
    \/ \E r \in requests, resp \in ToolOutcomes : ChatPage_response(r, resp)

SpecTools == InitTools /\ [][NextTools]_vars

(***************************************************************************)
(* Helpers of the claims.                                                  *)
(***************************************************************************)
\* the Token Store read of the store controller c reads
StoreRead(c) == IF c = "ChatUI" THEN getToken ELSE useToken_useEffect

\* the step completes request r of controller c with outcome resp
Response(c, r, resp) ==
    /\ r.ctl = c
    /\ IF c = "ChatUI" THEN ChatUI_response(r, resp) ELSE ChatPage_response(r, resp)

\* a failed chat call: transport failure, 401 or another non-2xx status
Failed(resp) == resp.status # 200

(***************************************************************************)
(* Claims.                                                                 *)
(***************************************************************************)

\* C1: while a send is in flight a second sendMessage call is a no-op (the log
\* and the requests in flight are unchanged), so a mounted controller never
\* has more than one chat request outstanding.
C1_SingleFlight ==
    /\ \A c \in Controllers : Cardinality(LiveRequests(c)) <= 1
    /\ lastCall.ctl # "none" /\ lastCall.sending =>
          /\ messages[lastCall.ctl] = lastCall.messages
          /\ Cardinality(LiveRequests(lastCall.ctl)) = lastCall.live

\* C2: a chat request answered 401 ends with the Token Store of its controller
\* cleared, a redirect to the entry view pending and no message appended.
C2_Unauthorized ==
    [][\A c \in Controllers : \A r \in requests : \A resp \in ChatOutcomes :
          (resp.status = 401 /\ Response(c, r, resp)) =>
              /\ StoreRead(c)' = NoToken
              /\ pushed' = "/"
              /\ messages'[c] = messages[c]]_vars

\* C3: the step completing a failed chat call of the mounted controller leaves
\* the log as it was: nothing is appended, and the user message of the call is
\* still at its place with its content.
C3_FailedCallKeepsLog ==
    [][\A c \in Controllers : \A r \in requests : \A resp \in ChatOutcomes :
          (Failed(resp) /\ r.live /\ Response(c, r, resp)) =>
              /\ messages'[c] = messages[c]
              /\ r.idx \in 1..Len(messages'[c])
              /\ messages'[c][r.idx] = UserMsg(r.query)]_vars

\* a failed call has completed: its error is shown and the log holds the user
\* message alone
C3_Witness ==
    \E c \in Controllers :
        /\ view = c
        /\ error[c] # "null"
        /\ LiveRequests(c) = {}
        /\ ~sending[c]
        /\ messages[c] = <<UserMsg(<<"q">>)>>

\* the sendMessage call just made appended exactly one user message to the log
\* it saw and left one more request in flight
AppendedUserMsg ==
    LET c == lastCall.ctl
    IN /\ Len(messages[c]) = Len(lastCall.messages) + 1
       /\ SubSeq(messages[c], 1, Len(lastCall.messages)) = lastCall.messages
       /\ messages[c][Len(messages[c])].role = "user"
       /\ Cardinality(LiveRequests(c)) = lastCall.live + 1

\* C4 as stated: a sendMessage call with a non-empty input appends exactly one
\* user message before the network call resolves.
C4_NonEmptyInput ==
    (lastCall.ctl # "none" /\ lastCall.input # <<>>) => AppendedUserMsg

\* C4 amended: a sendMessage call with an input that is non-empty after
\* trimming appends exactly one user message before the network call resolves.
C4_NonBlankInput ==
    (lastCall.ctl # "none" /\ Trim(lastCall.input) # <<>>) => AppendedUserMsg

\* a non-blank input was just submitted and its request is still in flight
C4_Witness ==
    /\ lastCall.ctl = "ChatUI"
    /\ Trim(lastCall.input) # <<>>
    /\ sending["ChatUI"]
    /\ LiveRequests("ChatUI") # {}
    /\ Len(messages["ChatUI"]) = 1

\* C5: the sending/loading flag of a controller is never true with no request
\* of that controller outstanding: every outcome of the network call clears it.
C5_NoStuckSending ==
    \A c \in Controllers : sending[c] => LiveRequests(c) # {}

\* a send answered 401 has completed and the controller is idle again
C5_Witness ==
    /\ view = "ChatUI"
    /\ error["ChatUI"] = "Your session has expired. Please log in again."
    /\ ~sending["ChatUI"]
    /\ LiveRequests("ChatUI") = {}

\* C6: within one controller instance every step leaves the log unchanged or
\* extends it by exactly one message at its end.
C6_AppendOnly ==
    [][\/ \E v \in Views, hard \in BOOLEAN : Enter(v, hard)
       \/ \A c \in Controllers :
             \/ messages'[c] = messages[c]
             \/ /\ Len(messages'[c]) = Len(messages[c]) + 1
                /\ SubSeq(messages'[c], 1, Len(messages[c])) = messages[c]]_vars

\* a log that grew by a user message, an answer and a second user message
C6_Witness ==
    \E c \in Controllers :
        /\ Len(messages[c]) = 3
        /\ messages[c][1].role = "user"
        /\ messages[c][2].role = "assistant"
        /\ messages[c][3].role = "user"

\* C7: every component reads the same token: the two Token Store reads agree
\* in every reachable state.
C7_OneToken == getToken = useToken_useEffect

\* a login response that carries a token
LoginSuccess(resp) == Ok(resp) /\ resp.json /\ resp.access_token # NoToken

\* the storage key the login form f writes
FormKey(f) == IF f = "LoginForm" THEN USE_TOKEN_KEY ELSE AUTH_CLIENT_KEY

\* the step completes login request r with outcome resp
LoginResponse(r, resp) ==
    IF r.form = "LoginForm" THEN LoginForm_response(r, resp) ELSE AuthForm_response(r, resp)

\* a navigation to the chat view has been triggered and not yet carried out
NavToChatTriggered == pushed = "/chat" \/ loginTimer

\* C8 as stated: the step completing a successful login leaves the Token Store
\* holding the response's access_token and a navigation to the chat view
\* triggered (and not yet carried out); a failed login triggers none.
C8_LoginStoresToken ==
    [][\A r \in loginReqs : \A resp \in LoginOutcomes :
          LoginResponse(r, resp) =>
              IF LoginSuccess(resp)
              THEN r.mode = "login" =>
                       /\ storage'[FormKey(r.form)] = resp.access_token
                       /\ NavToChatTriggered'
                       /\ view' = view
              ELSE pushed' = pushed /\ loginTimer' = loginTimer]_vars

\* C8 amended: the step completing a successful login writes the token before
\* the navigation to the chat view it triggers is carried out; the Token Store
\* holds the access_token then when localStorage works, and is left as it was
\* when localStorage throws; a failed login triggers no navigation.
C8_LoginWritesThenNavigates ==
    [][\A r \in loginReqs : \A resp \in LoginOutcomes :
          LoginResponse(r, resp) =>
              IF LoginSuccess(resp)
              THEN r.mode = "login" =>
                       /\ storageMode = "ok" => storage'[FormKey(r.form)] = resp.access_token
                       /\ storageMode # "ok" => storage' = storage
                       /\ NavToChatTriggered'
                       /\ view' = view
              ELSE pushed' = pushed /\ loginTimer' = loginTimer]_vars

\* LoginForm has stored the token and its navigation to the chat view is pending
C8_Witness ==
    /\ view = "LoginPage"
    /\ loginTimer
    /\ storage[USE_TOKEN_KEY] \in Tokens
    /\ loginReqs = {}

\* C9: no chat request in flight was issued with a bearer token that a logout
\* had destroyed before.
C9_NoStaleBearer == \A r \in requests : ~r.stale

\* C10: a chat controller mounted without a token has a redirect to the entry
\* view pending, and no chat request of the mounted controller goes without a
\* token.
C10_TokenRequired ==
    /\ \A c \in Controllers : (view = c /\ token[c] = NoToken) => pushed = "/"
    /\ \A r \in requests : r.live => r.bearer # NoToken

\* C11: the step completing a failed login (transport failure, non-success
\* status, or a success response without a token) leaves the Token Store
\* unchanged, triggers no navigation to the chat view and, the form being still
\* mounted, records an error message.
C11_FailedLogin ==
    [][\A r \in loginReqs : \A resp \in LoginOutcomes :
          (r.mode = "login" /\ ~LoginSuccess(resp) /\ LoginResponse(r, resp)) =>
              /\ storage' = storage
              /\ pushed' = pushed
              /\ loginTimer' = loginTimer
              /\ view' = view
              /\ r.live => formError'[r.form] # "null"]_vars

\* LoginForm shows the error of a success response that carried no token;
\* nothing is stored and no navigation is pending
C11_Witness ==
    /\ view = "LoginPage"
    /\ formError["LoginForm"] = "Login response missing access_token."
    /\ ~formLoading["LoginForm"]
    /\ storage[USE_TOKEN_KEY] = NoToken
    /\ ~loginTimer
    /\ pushed = "none"

\* the Token Store read of the store the login form f writes
FormStoreRead(f) == IF f = "AuthForm" THEN getToken ELSE useToken_useEffect

\* C12: with localStorage working, a read that follows a write of t returns t
\* and a read that follows a clear returns absent, in both token stores: the
\* writes are those of the two login forms, the clears those of ChatUI's
\* logout and 401 handling (auth-client) and of the Navbar's logout (useToken,
\* whose own token state is read as well).
C12_RoundTrip ==
    [][storageMode = "ok" =>
          /\ \A r \in loginReqs : \A resp \in LoginOutcomes :
                (LoginSuccess(resp) /\ LoginResponse(r, resp)) =>
                    FormStoreRead(r.form)' = resp.access_token
          /\ ChatUI_onLogout => getToken' = NoToken
          /\ \A r \in requests : \A resp \in ChatOutcomes :
                (resp.status = 401 /\ ChatUI_response(r, resp)) => getToken' = NoToken
          /\ Navbar_clearToken =>
                (useToken_useEffect' = NoToken /\ navToken' = NoToken)]_vars

\* a token was written to the auth-client store and then cleared by ChatUI's
\* logout; the store reads absent
C12_Witness ==
    /\ storageMode = "ok"
    /\ view = "ChatUI"
    /\ token["ChatUI"] = "tok1"
    /\ "tok1" \in revoked
    /\ getToken = NoToken
    /\ pushed = "/"

SendMessage(c) == IF c = "ChatUI" THEN ChatUI_sendMessage ELSE ChatPage_sendMessage

\* C14: a chat request is issued with the token the Token Store of its
\* controller holds at that moment as its bearer, and without a bearer exactly
\* when the store holds none.
C14_BearerIsHeldToken ==
    [][\A c \in Controllers :
          SendMessage(c) => \A r \in requests' \ requests : r.bearer = StoreRead(c)]_vars

\* a chat response the client takes as a success: 2xx with a body that parses
Succeeded(resp) == Ok(resp) /\ resp.json

\* the placeholder content of controller c
Placeholder(c) == IF c = "ChatUI" THEN NO_ANSWER_RETURNED ELSE NO_ANSWER_PROVIDED

\* the tool names in a sequence of tool fields
ToolNames(s) == {s[i] : i \in 1..Len(s)} \ {NoTool}

\* the step appended exactly one assistant message to the log of c, with this
\* content and the tool names of these steps, and recorded no error
AppendedAssistantMsg(c, content, steps) ==
    /\ Len(messages'[c]) = Len(messages[c]) + 1
    /\ SubSeq(messages'[c], 1, Len(messages[c])) = messages[c]
    /\ LET m == messages'[c][Len(messages'[c])]
       IN /\ m.role = "assistant"
          /\ m.content = content
          /\ ~InSeq(NoTool, m.tools)
          /\ ToolNames(m.tools) = ToolNames(steps)
    /\ error'[c] = error[c]

\* C15 as stated: the step completing a successful chat call of the mounted
\* controller appends exactly one assistant message with the tool names of the
\* response's reasoning steps and records no error; its content is the
\* response's answer, or the placeholder when the answer field is omitted.
C15_AnswerAppended ==
    [][\A c \in Controllers : \A r \in requests : \A resp \in ChatOutcomes :
          (Succeeded(resp) /\ r.live /\ Response(c, r, resp)) =>
              AppendedAssistantMsg(c, IF resp.answer THEN resp.text ELSE Placeholder(c),
                                   resp.steps)]_vars

\* C15 amended: as C15, the content being the response's answer when it is
\* non-empty, and the placeholder when the answer field is omitted or empty.
C15_NonEmptyAnswerAppended ==
    [][\A c \in Controllers : \A r \in requests : \A resp \in ChatOutcomes :
          (Succeeded(resp) /\ r.live /\ Response(c, r, resp)) =>
              AppendedAssistantMsg(c,
                                   IF resp.answer /\ resp.text # <<>> THEN resp.text
                                   ELSE Placeholder(c),
                                   resp.steps)]_vars

\* a submit was answered: the log holds the user message and the assistant
\* message with the answer and the tools of its steps, and no error is shown
C15_Witness ==
    /\ view = "ChatUI"
    /\ messages["ChatUI"] = <<UserMsg(<<"q">>), AssistantMsg(ANSWER, <<"a", "b">>)>>
    /\ error["ChatUI"] = "null"
    /\ ~sending["ChatUI"]

\* the position of the first occurrence of x in s
FirstIndex(x, s) == CHOOSE i \in 1..Len(s) : s[i] = x /\ \A j \in 1..(i - 1) : s[j] # x

\* out is the list of tool fields steps without the missing names, without
\* duplicates and in the order of first occurrence
IsDedupFirstSeen(out, steps) ==
    /\ \A i, j \in 1..Len(out) : i # j => out[i] # out[j]
    /\ {out[i] : i \in 1..Len(out)} = ToolNames(steps)
    /\ \A i, j \in 1..Len(out) :
          i < j => FirstIndex(out[i], steps) < FirstIndex(out[j], steps)

\* C16: for every list of reasoning steps a response may carry, the tool names
\* displayed under the assistant message it produces are the tool names of the
\* steps with duplicates removed and first-seen order preserved; steps without
\* a tool name contribute nothing.
C16_DedupFirstSeen ==
    [][\A c \in Controllers : \A r \in requests : \A resp \in ToolOutcomes :
          (r.live /\ Response(c, r, resp)) =>
              IsDedupFirstSeen(Displayed(c, messages'[c][Len(messages'[c])]), resp.steps)]_vars

\* ChatPage holds an answer with the tools [a, b, a, c] and displays [a, b, c]
C16_Witness ==
    /\ view = "ChatPage"
    /\ Len(messages["ChatPage"]) = 2
    /\ messages["ChatPage"][2].tools = <<"a", "b", "a", "c">>
    /\ Displayed("ChatPage", messages["ChatPage"][2]) = <<"a", "b", "c">>

\* C17: the step completing a register submit answered 2xx without an
\* access_token records no error.
C17_RegisterNeedsNoToken ==
    [][\A r \in loginReqs : \A resp \in LoginOutcomes :
          (r.mode = "register" /\ r.live /\ Ok(resp) /\ ~LoginSuccess(resp)
           /\ LoginResponse(r, resp)) => formError'[r.form] = "null"]_vars

\* the sendMessage call of controller c is accepted
Accepts(c) == IF c = "ChatUI" THEN ChatUI_accepts ELSE ChatPage_accepts

\* the step is a submit of a login form that passes the form's own checks
LoginSubmit == LoginForm_onSubmit \/ AuthForm_onSubmit(TRUE)

\* C18: nothing is retried.  An accepted sendMessage call puts exactly one chat
\* request in flight and a rejected one none; the completion of a chat request,
\* whatever the response, removes it and issues none; no other step adds a
\* chat request.  The same holds for the login requests and the submits of the
\* login forms.
C18_NoRetry ==
    [][/\ \A c \in Controllers :
             SendMessage(c) =>
                 IF Accepts(c)
                 THEN \E q \in requests' : q \notin requests /\ requests' = requests \cup {q}
                 ELSE requests' = requests
       /\ \A c \in Controllers : \A r \in requests : \A resp \in ChatOutcomes :
             Response(c, r, resp) => requests' = requests \ {r}
       /\ Cardinality(requests') > Cardinality(requests) =>
             \E c \in Controllers : SendMessage(c) /\ Accepts(c)
       /\ LoginSubmit =>
             \E q \in loginReqs' : q \notin loginReqs /\ loginReqs' = loginReqs \cup {q}
       /\ \A r \in loginReqs : \A resp \in LoginOutcomes :
             LoginResponse(r, resp) => loginReqs' = loginReqs \ {r}
       /\ Cardinality(loginReqs') > Cardinality(loginReqs) => LoginSubmit]_vars

\* a chat request failed and nothing is in flight: the call was not retried
C18_Witness ==
    /\ view = "ChatUI"
    /\ error["ChatUI"] = "data.detail"
    /\ messages["ChatUI"] = <<UserMsg(<<"q">>)>>
    /\ requests = {}
    /\ ~sending["ChatUI"]

\* the error controller c shows after a chat request answered 401
Rejected(c) ==
    IF c = "ChatUI" THEN "Your session has expired. Please log in again."
    ELSE "Chat failed (401)"

\* C19: a controller whose last chat request was answered 401, no login having
\* written a token to its store since, issues no chat request.
C19_NoSendAfter401 ==
    [][\A c \in Controllers :
          (error[c] = Rejected(c) /\ StoreRead(c) = NoToken) =>
              ~(SendMessage(c) /\ requests' # requests)]_vars

\* C20: the completion of a chat request whose controller has been left changes
\* neither the Token Store nor the pending navigation.
C20_LateResponseDiscarded ==
    [][\A c \in Controllers : \A r \in requests : \A resp \in ChatOutcomes :
          (~r.live /\ Response(c, r, resp)) => (storage' = storage /\ pushed' = pushed)]_vars

\* C21: a sendMessage call made with an input that is empty after trimming
\* changes nothing: the log, the sending flag, the error, the input and the
\* token of the controller, the Token Store and the pending navigation are as
\* before, and no request is issued.
C21_BlankSubmitNoEffect ==
    [][\A c \in Controllers :
          (SendMessage(c) /\ Trim(input[c]) = <<>>) =>
              /\ UNCHANGED <<messages, sending, error, input, token>>
              /\ UNCHANGED <<requests, storage, pushed>>]_vars

\* a blank input was just submitted while an error was shown: the error, the
\* log and the input are those the call saw and nothing is in flight
C21_Witness ==
    /\ lastCall.ctl = "ChatPage"
    /\ lastCall.input = <<" ">>
    /\ input["ChatPage"] = <<" ">>
    /\ error["ChatPage"] # "null"
    /\ messages["ChatPage"] = lastCall.messages
    /\ ~sending["ChatPage"]
    /\ requests = {}

\* C22: after every step, a controller with a send in flight shows no error,
\* and the step completing a chat call of the mounted controller that did not
\* fail leaves no error shown.
C22_ErrorOnlyOfLastSend ==
    [][\A c \in Controllers :
          /\ LiveRequests(c)' # {} => error'[c] = "null"
          /\ \A r \in requests : \A resp \in ChatOutcomes :
                (r.live /\ Succeeded(resp) /\ Response(c, r, resp)) => error'[c] = "null"]_vars

\* the number of messages of a role in a log
CountRole(msgs, role) == Cardinality({i \in 1..Len(msgs) : msgs[i].role = role})

\* the first message of the log is no assistant message, every assistant
\* message comes right after a user message, and there are no more assistant
\* messages than user messages
Paired(msgs) ==
    /\ \A i \in 1..Len(msgs) :
          msgs[i].role = "assistant" => (i > 1 /\ msgs[i - 1].role = "user")
    /\ CountRole(msgs, "assistant") <= CountRole(msgs, "user")

\* C23: after every step the log of each controller is paired (no leading
\* assistant message, each assistant message right after a user message, no
\* more assistant than user messages), and the assistant message a successful
\* chat call appends comes right after the user message of that call, its
\* query.
C23_AnswerFollowsItsQuery ==
    [][\A c \in Controllers :
          /\ Paired(messages'[c])
          /\ \A r \in requests : \A resp \in ChatOutcomes :
                (r.live /\ Succeeded(resp) /\ Response(c, r, resp)) =>
                    /\ r.idx = Len(messages[c])
                    /\ messages'[c][r.idx] = UserMsg(r.query)]_vars
====
